---- MODULE Spec2Model ----
(***************************************************************************)
(* Tensor networks of tntorch (tensor.py, automata.py, metrics.py).        *)
(*                                                                         *)
(* A dense array is a record [shape, data]: shape is the sequence of axis  *)
(* sizes and data the entries in row-major order, so that torch.reshape    *)
(* keeps data and replaces shape.  Entries are integers.  Python positions *)
(* are 0-based (negative positions count from the end); positions inside   *)
(* the arrays of the model are 1-based.                                    *)
(*                                                                         *)
(* Four specifications look at the arrays of a network in three ways:      *)
(*   Spec       the values: construction, +, *, indexing, decompression,   *)
(*              the masks of automata.py;                                  *)
(*   SpecSet    the values: construction and assignment;                   *)
(*   SpecShape  the shapes only (data is empty): construction from any     *)
(*              list of cores, and the QR and truncation steps of the      *)
(*              orthogonalization and rounding sweeps, one step at a time; *)
(*   SpecOwn    the storage only: which arrays of a result are the         *)
(*              arrays, or views of the arrays, of an operand.             *)
(***************************************************************************)
EXTENDS Integers, Sequences, FiniteSets, TLC

VARIABLES
    dense,  \* the dense array the receiver was built from (None: from cores)
    t,      \* the receiver network (self)
    odense, \* the dense array the second operand was built from
    other,  \* the second operand of the last arithmetic operation
    key,    \* the key of the last indexing operation
    res,    \* what the last operation returned or raised
    op,     \* the last operation
    given,  \* SpecShape: the core list handed to Tensor(cores)
    entry,  \* SpecShape: the receiver as it was when the rounding call began
    todo,   \* SpecShape: the steps of the running call still to be taken
    hold,   \* SpecShape: the local R, L, left or right factor of the sweep
    orth,   \* SpecShape: the mode orthogonalize was called for, and per mode
            \* whether the core is known left- or right-orthogonal
    pool,   \* SpecOwn: the networks alive, oldest first
    arg     \* the further arguments of the last call

vars == <<dense, t, odense, other, key, res, op, given, entry, todo, hold, orth, pool, arg>>

valueVars == <<dense, t, odense, other, key, res, op>>

shapeVars == <<given, entry, todo, hold, orth>>

(* ---------------------------- bounds ----------------------------------- *)
MaxDim == 3
MaxSize == 3
MaxElems == 4
MaxVal == 1
MaxKeyLen == 3
MaxTuckerDim == 2
MaxRank == 2
MaxCores == 3
MaxAxes == 4
MaxNets == 3
MaxOwnDim == 2
MaxMaskDim == 3
MaxWeight == 3
MaxWeights == 2
MaxDen == 2
MaxSetKeyLen == 2

(* ------------------------- integer helpers ----------------------------- *)
RECURSIVE Prod(_)
Prod(s) == IF s = <<>> THEN 1 ELSE Head(s) * Prod(Tail(s))

RECURSIVE SumSeq(_)
SumSeq(s) == IF s = <<>> THEN 0 ELSE Head(s) + SumSeq(Tail(s))

RECURSIVE Flatten(_)
Flatten(ss) == IF ss = <<>> THEN <<>> ELSE Head(ss) \o Flatten(Tail(ss))

Min(a, b) == IF a < b THEN a ELSE b

Max(a, b) == IF a < b THEN b ELSE a

(* ------------------------------ arrays --------------------------------- *)
\* s \o <<>> is s, held as an enumerated tuple.
Arr(shape, data) == [shape |-> shape, data |-> data \o <<>>]

None == Arr(<<>>, <<>>)

IsNone(u) == u.shape = <<>>

Dim(a) == Len(a.shape)

At2(m, i, j) == m.data[(i - 1) * m.shape[2] + j]

At3(c, i, j, k) == c.data[((i - 1) * c.shape[2] + (j - 1)) * c.shape[3] + k]

Mk2(a, b, F(_, _)) ==
    Arr(<<a, b>>, [n \in 1..(a * b) |-> F(((n - 1) \div b) + 1, ((n - 1) % b) + 1)])

Mk3(a, b, c, F(_, _, _)) ==
    Arr(<<a, b, c>>,
        [n \in 1..(a * b * c) |->
            F(((n - 1) \div (b * c)) + 1, (((n - 1) \div c) % b) + 1, ((n - 1) % c) + 1)])

Reshape(a, shape) == Arr(shape, a.data)

Eye(n) == Mk2(n, n, LAMBDA i, j : IF i = j THEN 1 ELSE 0)

Ones3(a, b, c) == Mk3(a, b, c, LAMBDA i, j, k : 1)

Zeros3(a, b, c) == Mk3(a, b, c, LAMBDA i, j, k : 0)

Arange(n) == [i \in 1..n |-> i - 1]

(* ------------------------------ networks ------------------------------- *)
Net(cores, Us, idxs) == [cores |-> cores, Us |-> Us, idxs |-> idxs]

NoNet == Net(<<>>, <<>>, <<>>)

ndim(x) == Len(x.cores)

\* Tensor.shape: the factor's row count where a factor is present, else the
\* core's second-to-last axis.
ShapeAt(x, n) ==
    IF IsNone(x.Us[n])
    THEN x.cores[n].shape[Dim(x.cores[n]) - 1]
    ELSE x.Us[n].shape[1]

shape(x) == [n \in 1..ndim(x) |-> ShapeAt(x, n)]

(* What an operation returns or raises. *)
NoRes == [kind |-> "none", net |-> NoNet, val |-> 0, err |-> ""]

NetRes(x) == [kind |-> "net", net |-> x, val |-> 0, err |-> ""]

ScalarRes(v) == [kind |-> "scalar", net |-> NoNet, val |-> v, err |-> ""]

ErrRes(e) == [kind |-> "error", net |-> NoNet, val |-> 0, err |-> e]

\* The checks with a two-axis core n+1 compared on its first axis, as a
\* three-axis core is.
CoresAcceptedFirstAxis(data) ==
    /\ \A n \in 1..Len(data) : 2 <= Dim(data[n]) /\ Dim(data[n]) <= 3
    /\ \A n \in 1..(Len(data) - 1) :
          data[n].shape[Dim(data[n])] = data[n + 1].shape[1]

\* The checks of Tensor.__init__ on a core list: every core has 2 or 3 axes,
\* and the last axis of core n equals the first axis of a three-axis core
\* n+1, or the second axis of a two-axis core n+1.
CoresAccepted(data) ==
    /\ \A n \in 1..Len(data) : 2 <= Dim(data[n]) /\ Dim(data[n]) <= 3
    /\ \A n \in 1..(Len(data) - 1) :
          ~ \/ (Dim(data[n + 1]) = 3
                 /\ data[n].shape[Dim(data[n])] # data[n + 1].shape[1])
            \/ (Dim(data[n + 1]) = 2
                 /\ data[n].shape[Dim(data[n])] # data[n + 1].shape[2])

\* The assertions of Tensor.__init__ on a factor list.
UsAccepted(data, Us) ==
    \A n \in 1..Len(data) :
        IsNone(Us[n]) \/ (Dim(Us[n]) = 2 /\ data[n].shape[2] = Us[n].shape[2])

\* Tensor(cores, Us=Us): idxs defaults to arange per mode.
TensorOf(cores, Us) ==
    LET x == Net(cores, Us, <<>>)
    IN  Net(cores \o <<>>, Us \o <<>>, [n \in 1..Len(cores) |-> Arange(ShapeAt(x, n))] \o <<>>)

\* Tensor.__init__ on a core list with a factor list.
TensorInit(data, Us) ==
    IF ~CoresAccepted(data) THEN ErrRes("ValueError")
    ELSE IF Len(Us) < Len(data) THEN ErrRes("IndexError")
    ELSE IF ~UsAccepted(data, Us) THEN ErrRes("AssertionError")
    ELSE NetRes(TensorOf(data, Us))

NoUs(N) == [n \in 1..N |-> None]

\* One pass of the naive TT formatting loop of Tensor.__init__ (n is the
\* Python loop variable; shp[n] is the Python shape[n-1]): the core the pass
\* appends, and the matrix it leaves in data.
DenseCore(shp, data, n) ==
    LET rows == data.shape[1]
        cols == data.shape[2]
    IN  IF rows < cols
        THEN Reshape(Eye(rows), <<rows \div shp[n], shp[n], rows>>)
        ELSE Reshape(data, <<rows \div shp[n], shp[n], cols>>)

\* A slip in the second branch: data is reshaped instead of replaced by the
\* identity.
DenseDataKept(shp, data, n) ==
    LET rows == data.shape[1]
        cols == data.shape[2]
    IN  IF rows < cols
        THEN Reshape(data, <<rows * shp[n + 1], cols \div shp[n + 1]>>)
        ELSE Arr(<<cols * shp[n + 1], cols \div shp[n + 1]>>,
                 [i \in 1..(cols * cols) |-> IF i <= Len(data.data) THEN data.data[i] ELSE 0])

DenseData(shp, data, n) ==
    LET rows == data.shape[1]
        cols == data.shape[2]
    IN  IF rows < cols
        THEN Reshape(data, <<rows * shp[n + 1], cols \div shp[n + 1]>>)
        ELSE Reshape(Eye(cols), <<cols * shp[n + 1], cols \div shp[n + 1]>>)

RECURSIVE DenseCores(_, _, _, _)
DenseCores(shp, data, n, cores) ==
    LET N == Len(shp)
    IN  IF n > N - 1
        THEN Append(cores, Reshape(data, <<data.shape[1] \div shp[N], shp[N], 1>>))
        ELSE DenseCores(shp, DenseData(shp, data, n), n + 1,
                        Append(cores, DenseCore(shp, data, n)))

TensorFromDense(A) ==
    LET cores == DenseCores(A.shape,
                            Reshape(A, <<A.shape[1], Prod(Tail(A.shape))>>), 1, <<>>)
    IN  TensorOf(cores, NoUs(Len(cores)))

\* torch.einsum('ijk,aj->iak', (core, U))
EinsumCoreU(core, U) ==
    Mk3(core.shape[1], U.shape[1], core.shape[3],
        LAMBDA i, a, k : SumSeq([j \in 1..core.shape[2] |-> At3(core, i, j, k) * At2(U, a, j)]))

\* torch.einsum('jk,aj->ak', (core, U))
EinsumCpU(core, U) ==
    Mk2(U.shape[1], core.shape[2],
        LAMBDA a, k : SumSeq([j \in 1..core.shape[1] |-> At2(core, j, k) * At2(U, a, j)]))

full_tucker(x) ==
    Net([n \in 1..ndim(x) |->
            IF ~IsNone(x.Us[n])
            THEN IF Dim(x.cores[n]) = 2
                 THEN EinsumCpU(x.cores[n], x.Us[n])
                 ELSE EinsumCoreU(x.cores[n], x.Us[n])
            ELSE x.cores[n]],
        NoUs(ndim(x)), x.idxs)

\* One step of the loop of Tensor.full: contract the running factor with the
\* next core and fold the free axis into the rows.
FullStep(factor, core) ==
    IF Dim(core) = 2
    THEN Mk2(factor.shape[1] * core.shape[1], core.shape[2],
             LAMBDA r, i : At2(factor, ((r - 1) \div core.shape[1]) + 1,
                               IF factor.shape[2] = 1 THEN 1 ELSE i)
                           * At2(core, ((r - 1) % core.shape[1]) + 1, i))
    ELSE Mk2(factor.shape[1] * core.shape[2], core.shape[3],
             LAMBDA r, j : SumSeq([i \in 1..core.shape[1] |->
                               At2(factor, ((r - 1) \div core.shape[2]) + 1, i)
                               * At3(core, i, ((r - 1) % core.shape[2]) + 1, j)]))

RECURSIVE FullLoop(_, _, _)
FullLoop(cores, n, factor) ==
    IF n > Len(cores) THEN factor
    ELSE FullLoop(cores, n + 1, FullStep(factor, cores[n]))

full(x) ==
    LET tt == full_tucker(x)
        factor == FullLoop(tt.cores, 1, Mk2(1, 1, LAMBDA i, j : 1))
    IN  Arr([n \in 1..ndim(tt) |-> tt.cores[n].shape[Dim(tt.cores[n]) - 1]],
            [r \in 1..factor.shape[1] |-> At2(factor, r, 1)])

(* ----------------------------- arithmetic ------------------------------ *)
\* torch.cat((a, b), dim=d) of two three-axis arrays (d is 0-based).
Cat3(a, b, d) ==
    Mk3(IF d = 0 THEN a.shape[1] + b.shape[1] ELSE a.shape[1],
        IF d = 1 THEN a.shape[2] + b.shape[2] ELSE a.shape[2],
        IF d = 2 THEN a.shape[3] + b.shape[3] ELSE a.shape[3],
        LAMBDA i, j, k :
            IF d = 0 THEN (IF i <= a.shape[1] THEN At3(a, i, j, k) ELSE At3(b, i - a.shape[1], j, k))
            ELSE IF d = 1 THEN (IF j <= a.shape[2] THEN At3(a, i, j, k) ELSE At3(b, i, j - a.shape[2], k))
            ELSE (IF k <= a.shape[3] THEN At3(a, i, j, k) ELSE At3(b, i, j, k - a.shape[3])))

\* torch.cat((U1, U2), dim=1) of two matrices.
CatCols(U1, U2) ==
    Mk2(U1.shape[1], U1.shape[2] + U2.shape[2],
        LAMBDA i, j : IF j <= U1.shape[2] THEN At2(U1, i, j) ELSE At2(U2, i, j - U1.shape[2]))

\* torch.sum(c, dim=0, keepdim=True) and torch.sum(c, dim=2, keepdim=True)
SumDim0(c) ==
    Mk3(1, c.shape[2], c.shape[3],
        LAMBDA i, j, k : SumSeq([r \in 1..c.shape[1] |-> At3(c, r, j, k)]))

SumDim2(c) ==
    Mk3(c.shape[1], c.shape[2], 1,
        LAMBDA i, j, k : SumSeq([r \in 1..c.shape[3] |-> At3(c, i, j, r)]))

\* a + b and a * v on arrays of one shape
AddArr(a, b) == Arr(a.shape, [n \in 1..Len(a.data) |-> a.data[n] + b.data[n]])

ScaleArr(a, v) == Arr(a.shape, [n \in 1..Len(a.data) |-> a.data[n] * v])

\* The core and the factor that one pass of the loop of __add__ appends.
AddCore(x, y, n) ==
    LET core1 == x.cores[n]
        core2 == y.cores[n]
    IN  IF ~IsNone(x.Us[n]) /\ ~IsNone(y.Us[n])
        THEN LET slice1a == Cat3(core1, Zeros3(core2.shape[1], core1.shape[2], core1.shape[3]), 0)
                 slice1 == Cat3(slice1a,
                                Zeros3(core1.shape[1] + core2.shape[1], core1.shape[2], core2.shape[3]), 2)
                 slice2a == Cat3(Zeros3(core1.shape[1], core2.shape[2], core2.shape[3]), core2, 0)
                 slice2 == Cat3(Zeros3(core1.shape[1] + core2.shape[1], core2.shape[2], core1.shape[3]),
                                slice2a, 2)
             IN  Cat3(slice1, slice2, 1)
        ELSE LET c1 == IF ~IsNone(x.Us[n]) THEN EinsumCoreU(core1, x.Us[n]) ELSE core1
                 c2 == IF ~IsNone(y.Us[n]) THEN EinsumCoreU(core2, y.Us[n]) ELSE core2
                 column1 == Cat3(c1, Zeros3(c2.shape[1], ShapeAt(x, n), c1.shape[3]), 0)
                 column2 == Cat3(Zeros3(c1.shape[1], ShapeAt(x, n), c2.shape[3]), c2, 0)
             IN  Cat3(column1, column2, 2)

AddU(x, y, n) ==
    IF ~IsNone(x.Us[n]) /\ ~IsNone(y.Us[n]) THEN CatCols(x.Us[n], y.Us[n]) ELSE None

\* A slip in __add__: the last core is not summed over its trailing rank.
TensorAddLastKept(x, y) ==
    IF shape(x) # shape(y)
    THEN ErrRes("ValueError")
    ELSE IF ndim(x) = 1
    THEN TensorInit(<<AddArr(full_tucker(x).cores[1], full_tucker(y).cores[1])>>, NoUs(1))
    ELSE LET N == ndim(x)
             cores == [n \in 1..N |-> AddCore(x, y, n)]
             first == [cores EXCEPT ![1] = SumDim0(cores[1])]
         IN  TensorInit(first, [n \in 1..N |-> AddU(x, y, n)])

\* Tensor.__add__ for a network operand.
TensorAdd(x, y) ==
    IF shape(x) # shape(y)
    THEN ErrRes("ValueError")
    ELSE IF ndim(x) = 1
    THEN TensorInit(<<AddArr(full_tucker(x).cores[1], full_tucker(y).cores[1])>>, NoUs(1))
    ELSE LET N == ndim(x)
             cores == [n \in 1..N |-> AddCore(x, y, n)]
             first == [cores EXCEPT ![1] = SumDim0(cores[1])]
             last == [first EXCEPT ![N] = SumDim2(first[N])]
         IN  TensorInit(last, [n \in 1..N |-> AddU(x, y, n)])

\* tn.core_kron(a, b): Kronecker product on the two rank axes, matched on
\* the free axis.
core_kron(a, b) ==
    Mk3(a.shape[1] * b.shape[1], a.shape[2], a.shape[3] * b.shape[3],
        LAMBDA i, j, k :
            At3(a, ((i - 1) \div b.shape[1]) + 1, j, ((k - 1) \div b.shape[3]) + 1)
            * At3(b, ((i - 1) % b.shape[1]) + 1, j, ((k - 1) % b.shape[3]) + 1))

\* reshape(einsum('ijk,abc->iajbkc', (c1, c2)), (i*a, j*b, k*c))
KronAll(c1, c2) ==
    Mk3(c1.shape[1] * c2.shape[1], c1.shape[2] * c2.shape[2], c1.shape[3] * c2.shape[3],
        LAMBDA i, j, k :
            At3(c1, ((i - 1) \div c2.shape[1]) + 1, ((j - 1) \div c2.shape[2]) + 1,
                    ((k - 1) \div c2.shape[3]) + 1)
            * At3(c2, ((i - 1) % c2.shape[1]) + 1, ((j - 1) % c2.shape[2]) + 1,
                      ((k - 1) % c2.shape[3]) + 1))

\* reshape(einsum('ij,ik->ijk', (U1, U2)), (rows, -1))
KronCols(U1, U2) ==
    Mk2(U1.shape[1], U1.shape[2] * U2.shape[2],
        LAMBDA i, j : At2(U1, i, ((j - 1) \div U2.shape[2]) + 1)
                      * At2(U2, i, ((j - 1) % U2.shape[2]) + 1))

\* The test of __mul__ with "at most" for "smaller than".
MulCheapInclusive(x, y, n) ==
    /\ ~IsNone(x.Us[n])
    /\ ~IsNone(y.Us[n])
    /\ x.cores[n].shape[2] * y.cores[n].shape[2] <= ShapeAt(x, n)

MulCheap(x, y, n) ==
    /\ ~IsNone(x.Us[n])
    /\ ~IsNone(y.Us[n])
    /\ x.cores[n].shape[2] * y.cores[n].shape[2] < ShapeAt(x, n)

MulCore(x, y, n) ==
    IF MulCheap(x, y, n)
    THEN KronAll(x.cores[n], y.cores[n])
    ELSE LET c1 == IF ~IsNone(x.Us[n]) THEN EinsumCoreU(x.cores[n], x.Us[n]) ELSE x.cores[n]
             c2 == IF ~IsNone(y.Us[n]) THEN EinsumCoreU(y.cores[n], y.Us[n]) ELSE y.cores[n]
         IN  core_kron(c1, c2)

MulU(x, y, n) == IF MulCheap(x, y, n) THEN KronCols(x.Us[n], y.Us[n]) ELSE None

\* Tensor.__mul__ for a network operand.
TensorMul(x, y) ==
    IF shape(x) # shape(y)
    THEN ErrRes("ValueError")
    ELSE TensorInit([n \in 1..ndim(x) |-> MulCore(x, y, n)],
                    [n \in 1..ndim(x) |-> MulU(x, y, n)])

(* ------------------------------ indexing ------------------------------- *)
(* A key is a sequence of entries.  An entry is an integer (v), a slice    *)
(* (every=TRUE is slice(None), else lo:hi with 0 <= lo, hi), None, an      *)
(* Ellipsis, an index array (idx) or a value of an unsupported type.       *)
KInt(v) == [k |-> "int", v |-> v, every |-> FALSE, lo |-> 0, hi |-> 0, idx |-> <<>>]

KSlice(lo, hi) == [k |-> "slice", v |-> 0, every |-> FALSE, lo |-> lo, hi |-> hi, idx |-> <<>>]

KFull == [k |-> "slice", v |-> 0, every |-> TRUE, lo |-> 0, hi |-> 0, idx |-> <<>>]

KNone == [k |-> "none", v |-> 0, every |-> FALSE, lo |-> 0, hi |-> 0, idx |-> <<>>]

KEllipsis == [k |-> "ellipsis", v |-> 0, every |-> FALSE, lo |-> 0, hi |-> 0, idx |-> <<>>]

KIndex(idx) == [k |-> "index", v |-> 0, every |-> FALSE, lo |-> 0, hi |-> 0, idx |-> idx]

KBad == [k |-> "bad", v |-> 0, every |-> FALSE, lo |-> 0, hi |-> 0, idx |-> <<>>]

Count(ks, kind) == Cardinality({i \in 1..Len(ks) : ks[i].k = kind})

Repeat(x, n) == [i \in 1..n |-> x]

\* The 1-based position of Python position v on an axis of size d.
Pos(v, d) == IF v < 0 THEN v + d + 1 ELSE v + 1

InRange(v, d) == 1 <= Pos(v, d) /\ Pos(v, d) <= d

\* The 1-based positions a slice selects on an axis of size d.
SlicePos(e, d) ==
    IF e.every THEN [i \in 1..d |-> i]
    ELSE [i \in 1..Max(0, Min(e.hi, d) - Min(e.lo, d)) |-> Min(e.lo, d) + i]

IndexPos(idx, d) == [i \in 1..Len(idx) |-> Pos(idx[i], d)]

IndexInRange(idx, d) == \A i \in 1..Len(idx) : InRange(idx[i], d)

\* Tensor._process_key on a tuple or list key: [err, key].
process_key(x, ks) ==
    LET nonecount == Count(ks, "none")
        first == IF Count(ks, "ellipsis") = 0 THEN 0
                 ELSE CHOOSE i \in 1..Len(ks) :
                          /\ ks[i].k = "ellipsis"
                          /\ \A j \in 1..(i - 1) : ks[j].k # "ellipsis"
        expanded == IF first = 0 THEN ks
                    ELSE SubSeq(ks, 1, first - 1)
                         \o Repeat(KFull, Max(0, ndim(x) - (Len(ks) - nonecount) + 1))
                         \o SubSeq(ks, first + 1, Len(ks))
        missing == ndim(x) - (Len(expanded) - nonecount)
    IN  IF Count(expanded, "ellipsis") > 0 THEN [err |-> "IndexError", key |-> <<>>]
        ELSE IF missing < 0 THEN [err |-> "IndexError", key |-> <<>>]
        ELSE [err |-> "", key |-> expanded \o Repeat(KFull, missing)]

\* core[:, key, :] for a slice or an index array, and for an integer.
Take3(core, pos) ==
    Mk3(core.shape[1], Len(pos), core.shape[3], LAMBDA i, j, k : At3(core, i, pos[j], k))

Row3(core, p) == Mk2(core.shape[1], core.shape[3], LAMBDA i, k : At3(core, i, p, k))

\* U[key, :] for a slice or an index array.
TakeRows(U, pos) == Mk2(Len(pos), U.shape[2], LAMBDA a, j : At2(U, pos[a], j))

\* torch.einsum('ijk,j->ik', (core, U[p, :]))
EinsumCoreRow(core, U, p) ==
    Mk2(core.shape[1], core.shape[3],
        LAMBDA i, k : SumSeq([j \in 1..core.shape[2] |-> At3(core, i, j, k) * At2(U, p, j)]))

\* torch.einsum('ij,jak->iak', (m, c))
EinsumMatCore(m, c) ==
    Mk3(m.shape[1], c.shape[2], c.shape[3],
        LAMBDA i, a, k : SumSeq([j \in 1..c.shape[1] |-> At2(m, i, j) * At3(c, j, a, k)]))

\* torch.einsum('ij,jk->ik', (m1, m2))
MatMul(m1, m2) ==
    Mk2(m1.shape[1], m2.shape[2],
        LAMBDA i, k : SumSeq([j \in 1..m1.shape[2] |-> At2(m1, i, j) * At2(m2, j, k)]))

\* torch.einsum('ija,ak->ijk', (c, m))
EinsumCoreMat(c, m) ==
    Mk3(c.shape[1], c.shape[2], m.shape[2],
        LAMBDA i, j, k : SumSeq([a \in 1..c.shape[3] |-> At3(c, i, j, a) * At2(m, a, k)]))

\* torch.sum(a1[:, :, :, None] * a2.permute(1, 0, 2)[None, :, :, :], dim=2)
FuseIndex(a1, a2) ==
    Mk3(a1.shape[1], a1.shape[2], a2.shape[3],
        LAMBDA i, p, k : SumSeq([j \in 1..a1.shape[3] |-> At3(a1, i, p, j) * At3(a2, j, p, k)]))

\* get_key of __getitem__ for the mode at (1-based) position c.
get_key_int(x, c, v) ==
    IF IsNone(x.Us[c])
    THEN Row3(x.cores[c], Pos(v, x.cores[c].shape[2]))
    ELSE EinsumCoreRow(x.cores[c], x.Us[c], Pos(v, x.Us[c].shape[1]))

get_key_index(x, c, idx) ==
    IF IsNone(x.Us[c])
    THEN Take3(x.cores[c], IndexPos(idx, x.cores[c].shape[2]))
    ELSE EinsumCoreU(x.cores[c], TakeRows(x.Us[c], IndexPos(idx, x.Us[c].shape[1])))

\* The registers of the scan of __getitem__: the cores and factors emitted so
\* far, the two pending factors, the input mode counter, the previous mode.
ScanInit ==
    [cores |-> <<>>, Us |-> <<>>, fint |-> None, findex |-> None, counter |-> 0,
     last_mode |-> "", index_done |-> FALSE, err |-> ""]

\* insert_core(factors, core, key, U); without a core when hasCore is FALSE.
\* pos is the selection the slice key makes on the core's (or factor's) axis.
insert_core(st, hasCore, core, pos, U) ==
    LET flushed ==
            IF ~IsNone(st.findex)
            THEN [st EXCEPT
                    !.cores = Append(st.cores,
                                     IF ~IsNone(st.fint) THEN EinsumMatCore(st.fint, st.findex)
                                     ELSE st.findex),
                    !.Us = Append(st.Us, None),
                    !.fint = None,
                    !.findex = None]
            ELSE st
    IN  IF ~hasCore THEN flushed
        ELSE IF ~IsNone(flushed.fint)
        THEN IF IsNone(U)
             THEN [flushed EXCEPT
                     !.cores = Append(flushed.cores, EinsumMatCore(flushed.fint, Take3(core, pos))),
                     !.Us = Append(flushed.Us, None),
                     !.fint = None]
             ELSE [flushed EXCEPT
                     !.cores = Append(flushed.cores, EinsumMatCore(flushed.fint, core)),
                     !.Us = Append(flushed.Us, TakeRows(U, pos)),
                     !.fint = None]
        ELSE IF IsNone(U)
             THEN [flushed EXCEPT
                     !.cores = Append(flushed.cores, Take3(core, pos)),
                     !.Us = Append(flushed.Us, None)]
             ELSE [flushed EXCEPT
                     !.cores = Append(flushed.cores, core),
                     !.Us = Append(flushed.Us, TakeRows(U, pos))]

\* A slip in the classification: an entry of any other type is taken for a
\* slice.
ModeOrSlice(e) == IF e.k \in {"index", "none", "int", "slice"} THEN e.k ELSE "slice"

\* this_mode of __getitem__; "bad" stands for the raise of its last branch.
ThisMode(e) == IF e.k \in {"index", "none", "int", "slice"} THEN e.k ELSE "bad"

\* One pass of the loop of __getitem__ over the processed key.
ScanStep(x, st, e) ==
    LET c == st.counter + 1
        this_mode == ThisMode(e)
    IN  IF this_mode = "bad" THEN [st EXCEPT !.err = "IndexError"]
        ELSE IF c > ndim(x) THEN [st EXCEPT !.err = "IndexError"]
        ELSE IF this_mode = "none"
        THEN LET r == x.cores[c].shape[1]
             IN  [insert_core(st, TRUE, Reshape(Eye(r), <<r, 1, r>>), <<1>>, None)
                     EXCEPT !.last_mode = this_mode]
        ELSE IF this_mode = "slice"
        THEN [insert_core(st, TRUE, x.cores[c], SlicePos(e, ShapeAt(x, c)), x.Us[c])
                 EXCEPT !.counter = c, !.last_mode = this_mode]
        ELSE IF this_mode = "index"
        THEN IF st.index_done THEN [st EXCEPT !.err = "IndexError"]
             ELSE IF ~IndexInRange(e.idx, ShapeAt(x, c)) THEN [st EXCEPT !.err = "IndexError"]
             ELSE IF IsNone(st.findex)
             THEN [st EXCEPT !.findex = get_key_index(x, c, e.idx),
                             !.counter = c, !.last_mode = this_mode]
             ELSE IF st.findex.shape[2] # Len(e.idx) THEN [st EXCEPT !.err = "ValueError"]
             ELSE [st EXCEPT !.findex = FuseIndex(st.findex, get_key_index(x, c, e.idx)),
                             !.counter = c, !.last_mode = this_mode]
        ELSE LET flushed == IF st.last_mode = "index"
                            THEN insert_core(st, FALSE, None, <<>>, None) ELSE st
             IN  IF ~InRange(e.v, ShapeAt(x, c)) THEN [st EXCEPT !.err = "IndexError"]
                 ELSE IF IsNone(flushed.fint)
                 THEN [flushed EXCEPT !.fint = get_key_int(x, c, e.v),
                                      !.counter = c, !.last_mode = this_mode]
                 ELSE [flushed EXCEPT !.fint = MatMul(flushed.fint, get_key_int(x, c, e.v)),
                                      !.counter = c, !.last_mode = this_mode]

RECURSIVE Scan(_, _, _, _)
Scan(x, st, ks, i) ==
    IF i > Len(ks) \/ st.err # "" THEN st
    ELSE Scan(x, ScanStep(x, st, ks[i]), ks, i + 1)

\* Tensor.__getitem__ for a tuple or list key.
getitem(x, ks) ==
    LET pk == process_key(x, ks)
        st == Scan(x, ScanInit, pk.key, 1)
    IN  IF pk.err # "" THEN ErrRes(pk.err)
        ELSE IF st.err # "" THEN ErrRes(st.err)
        ELSE IF st.last_mode = "index"
        THEN TensorInit(Append(st.cores, st.findex), Append(st.Us, None))
        ELSE IF st.last_mode = "int"
        THEN IF Len(st.cores) > 0
             THEN TensorInit([st.cores EXCEPT ![Len(st.cores)] =
                                 EinsumCoreMat(st.cores[Len(st.cores)], st.fint)],
                             st.Us)
             ELSE ScalarRes(At2(st.fint, 1, 1))
        ELSE TensorInit(st.cores, st.Us)

(* --------------------------- mask indexing ----------------------------- *)
\* tn.sum(x): the sum of all entries of the network.
sum(x) == SumSeq(full(x).data)

\* The right-product chains of accepted_inputs: rights[mu] is the vector
\* matmul(sum(core_mu, dim=1), rights[mu+1]), and rights[N+1] is ones(1).
RECURSIVE Rights(_, _)
Rights(cores, mu) ==
    IF mu > Len(cores) THEN <<1>>
    ELSE LET core == cores[mu]
             nxt == Rights(cores, mu + 1)
         IN  [i \in 1..core.shape[1] |->
                 SumSeq([k \in 1..core.shape[3] |->
                     SumSeq([j \in 1..core.shape[2] |-> At3(core, i, j, k)]) * nxt[k]])] \o <<>>

\* per_point of the recursion of accepted_inputs: for each symbol of mode mu,
\* the number of accepted strings that continue the prefix with it.
PerPoint(cores, left, mu) ==
    LET core == cores[mu]
        right == Rights(cores, mu + 1)
    IN  [j \in 1..core.shape[2] |->
            SumSeq([i \in 1..core.shape[1] |->
                left[i] * SumSeq([k \in 1..core.shape[3] |-> At3(core, i, j, k) * right[k]])])] \o <<>>

\* matmul(left, core[:, i, :])
LeftTimes(left, core, j) ==
    [k \in 1..core.shape[3] |->
        SumSeq([i \in 1..core.shape[1] |-> left[i] * At3(core, i, j, k)])] \o <<>>

\* The rows that recursion(Xs, left, rights, bound, mu) fills, from column mu
\* on: symbol i for the next per_point[i] rows, each continued by the rows of
\* the recursion on mode mu+1.
RECURSIVE Recursion(_, _, _)
Recursion(cores, left, mu) ==
    LET per_point == PerPoint(cores, left, mu)
    IN  Flatten([j \in 1..Len(per_point) |->
            IF per_point[j] <= 0 THEN <<>>
            ELSE IF mu = Len(cores) THEN Repeat(<<j - 1>>, per_point[j])
            ELSE LET rows == Recursion(cores, LeftTimes(left, cores[mu], j), mu + 1)
                 IN  [r \in 1..Len(rows) |-> <<j - 1>> \o rows[r]]])

\* tn.accepted_inputs(x): the accepted strings in alphabetical order.
accepted_inputs(x) == IF ndim(x) = 0 THEN <<>> ELSE Recursion(x.cores, <<1>>, 1)

\* idx[idx > 1] = 1
Clamp(idx) == [i \in 1..Len(idx) |-> IF idx[i] > 1 THEN 1 ELSE idx[i]]

\* np.where(idx == v)[0], as 0-based positions in increasing order
RECURSIVE Where(_, _, _)
Where(idx, v, i) ==
    IF i > Len(idx) THEN <<>>
    ELSE (IF idx[i] = v THEN <<i - 1>> ELSE <<>>) \o Where(idx, v, i + 1)

\* The loop of the mask branch of __getitem__ from mode n on: the index
\* labels as the loop leaves them (self.idxs[n].long() is self.idxs[n] itself,
\* so that the assignment idx[idx > 1] = 1 writes into it), the key built so
\* far, and the error that ended the loop.
RECURSIVE MaskLoop(_, _, _, _, _)
MaskLoop(x, s, n, idxs, slicing) ==
    IF n > ndim(x) THEN [idxs |-> idxs, slicing |-> slicing, err |-> ""]
    ELSE LET clamped == [idxs EXCEPT ![n] = Clamp(idxs[n])]
         IN  IF n > Len(s) THEN [idxs |-> clamped, slicing |-> slicing, err |-> "IndexError"]
             ELSE LET idx == Where(clamped[n], s[n], 1)
                  IN  IF idx = <<>>
                      THEN [idxs |-> clamped, slicing |-> slicing, err |-> "IndexError"]
                      ELSE MaskLoop(x, s, n + 1, clamped,
                               Append(slicing,
                                   IF Len(idx) = 1 THEN KInt(idx[1])
                                   ELSE KSlice(idx[1], idx[Len(idx)] + 1)))

\* Tensor.__getitem__ for a mask network key: [self, res], the receiver as the
\* call leaves it and what the call returns or raises.
getitem_mask(x, mask) ==
    IF sum(mask) # 1 THEN [self |-> x, res |-> ErrRes("ValueError")]
    ELSE LET s == accepted_inputs(mask)[1]
             loop == MaskLoop(x, s, 1, x.idxs, <<>>)
             after == [x EXCEPT !.idxs = loop.idxs]
         IN  IF loop.err # "" THEN [self |-> after, res |-> ErrRes(loop.err)]
             ELSE [self |-> after, res |-> getitem(after, loop.slicing)]

(* ----------------------------- assignment ------------------------------ *)
\* The 1-based positions slice(k, k + 1) selects on an axis of size d, by
\* the rules of Python slices: a negative bound counts from the end, and
\* both bounds are clipped to 0..d.
IntSlicePos(k, d) ==
    LET from(b) == Max(0, Min(d, IF b < 0 THEN b + d ELSE b))
    IN  [i \in 1..Max(0, from(k + 1) - from(k)) |-> from(k) + i]

\* slice(k, k + 1) read as "position k": what an integer selects.
IntPos(k, d) == IF InRange(k, d) THEN <<Pos(k, d)>> ELSE <<>>

\* The positions entry e of the processed key selects in __setitem__: an
\* integer k has become slice(k, k + 1).
SetPos(e, d) == IF e.k = "int" THEN IntSlicePos(e.v, d) ELSE SlicePos(e, d)

\* zeros_like(core) with core[:, key, :] added at key
SubtractCore(core, pos) ==
    Mk3(core.shape[1], core.shape[2], core.shape[3],
        LAMBDA i, j, k : IF \E a \in 1..Len(pos) : pos[a] = j THEN At3(core, i, j, k) ELSE 0)

\* zeros(1, d, 1) with 1 added at key, times value for the first mode
AddCoreScalar(d, pos, i, value) ==
    Mk3(1, d, 1,
        LAMBDA a, j, b : IF \E c \in 1..Len(pos) : pos[c] = j
                         THEN (IF i = 1 THEN value ELSE 1) ELSE 0)

\* zeros(r0, d, r1) with the core of value added at key
AddCoreNet(vcore, d, pos) ==
    Mk3(vcore.shape[1], d, vcore.shape[3],
        LAMBDA a, j, b : SumSeq([c \in 1..Len(pos) |->
                                    IF pos[c] = j THEN At3(vcore, a, c, b) ELSE 0]))

\* self - other: self + -1*other, where -1*other is a clone of other with
\* its first core scaled.
TensorSub(x, y) ==
    TensorAdd(x, [y EXCEPT !.cores[1] = ScaleArr(y.cores[1], -1)])

\* The element of a set of one element.
The(S) == CHOOSE e \in S : TRUE

\* Tensor.__setitem__ for a network without factors and a key of integers
\* and slices; value is a scalar v (scalar = TRUE) or a network without
\* factors.  [self, res]: the receiver after the call and what the call
\* raised, if it did.
setitem(x, ks, value, v, scalar) ==
    LET pk == process_key(x, ks)
        pkey == pk.key
        N == Len(pkey)
        pos == [i \in 1..N |-> SetPos(pkey[i], ShapeAt(x, i))]
        bad == {i \in 1..N : ~scalar /\ (i > ndim(value) \/ Len(pos[i]) # ShapeAt(value, i))}
        first == CHOOSE i \in bad : \A j \in bad : i <= j
        subtract_cores == [i \in 1..N |-> SubtractCore(x.cores[i], pos[i])]
        add_cores == [i \in 1..N |->
                         IF scalar THEN AddCoreScalar(ShapeAt(x, i), pos[i], i, v)
                         ELSE AddCoreNet(value.cores[i], ShapeAt(x, i), pos[i])]
        result == The({TensorAdd(minus.net, add.net) :
                          minus \in {TensorSub(x, subtract.net) :
                                        subtract \in {TensorInit(subtract_cores, NoUs(N))}},
                          add \in {TensorInit(add_cores, NoUs(N))}})
    IN  IF pk.err # "" THEN [self |-> x, res |-> ErrRes(pk.err)]
        ELSE IF bad # {}
        THEN [self |-> x,
              res |-> ErrRes(IF first > ndim(value) THEN "IndexError" ELSE "ValueError")]
        ELSE IF result.kind # "net" THEN [self |-> x, res |-> result]
        ELSE [self |-> Net(result.net.cores, result.net.Us, x.idxs), res |-> NoRes]

\* torch.sort of a list of integers.
RECURSIVE Sort(_)
Sort(w) ==
    IF w = <<>> THEN <<>>
    ELSE LET m == CHOOSE i \in 1..Len(w) : \A j \in 1..Len(w) : w[i] <= w[j]
         IN  <<w[m]>> \o Sort(SubSeq(w, 1, m - 1) \o SubSeq(w, m + 1, Len(w)))

\* A core of weight_mask in which every symbol leaves the state where it is.
WeightCoreStay(r, ns) == Mk3(r, ns, r, LAMBDA i, j, k : IF k = i THEN 1 ELSE 0)

\* A core of weight_mask for r states and ns symbols: symbol 0 is the
\* identity, and symbol s moves state i to state i + s (core[:, s, s:] =
\* eye(r)[:, :-s]).
WeightCore(r, ns) == Mk3(r, ns, r, LAMBDA i, j, k : IF k = i + (j - 1) THEN 1 ELSE 0)

\* core[0:1, :, :]
FirstRow(core) ==
    Mk3(1, core.shape[2], core.shape[3], LAMBDA i, j, k : At3(core, 1, j, k))

\* torch.sum(core[:, :, weight], dim=2, keepdim=True)
SumColumns(core, weight) ==
    Mk3(core.shape[1], core.shape[2], 1,
        LAMBDA i, j, k : SumSeq([n \in 1..Len(weight) |-> At3(core, i, j, weight[n] + 1)]))

\* weight_mask(N, weight, nsymbols) for a list of weights: what Tensor(cores)
\* returns.  The closing t.round() has eps = 0 and so does not go on to
\* round_tucker; its round_tt re-factors the chain, and the truncation is
\* tn.truncated_svd, which with eps = 0 drops exactly-zero directions only:
\* the tensor the chain stands for, and with it every prefix count
\* accepted_inputs rounds to an integer, is the one of these cores.
weight_mask(N, weight, nsymbols) ==
    LET sorted == Sort(weight)
        r == sorted[Len(sorted)] + 1
        cores == [n \in 1..N |-> WeightCore(r, nsymbols)]
        first == [cores EXCEPT ![1] = FirstRow(cores[1])]
        last == [first EXCEPT ![N] = SumColumns(first[N], sorted)]
    IN  TensorInit(last, NoUs(N))

(* ------------------- dense indexing (the reference) -------------------- *)
(* NumPy's result for a key of integers, slices, None entries and at most  *)
(* one Ellipsis: the Ellipsis (or the end of the key) stands for the full  *)
(* slices of the modes the key does not name; an integer removes its mode, *)
(* a slice keeps it, None inserts a mode of size 1.                        *)
Consuming(ks) == Count(ks, "int") + Count(ks, "slice")

RECURSIVE DenseExpand(_, _)
DenseExpand(ks, fill) ==
    IF ks = <<>> THEN <<>>
    ELSE IF Head(ks).k = "ellipsis"
    THEN Repeat(KFull, fill) \o Tail(ks)
    ELSE <<Head(ks)>> \o DenseExpand(Tail(ks), fill)

DenseKey(ks, N) ==
    LET e == DenseExpand(ks, N - Consuming(ks))
    IN  e \o Repeat(KFull, N - Consuming(e))

RECURSIVE RefShape(_, _, _)
RefShape(A, ks, axis) ==
    IF ks = <<>> THEN <<>>
    ELSE IF Head(ks).k = "none" THEN <<1>> \o RefShape(A, Tail(ks), axis)
    ELSE IF Head(ks).k = "int" THEN RefShape(A, Tail(ks), axis + 1)
    ELSE <<Len(SlicePos(Head(ks), A.shape[axis]))>> \o RefShape(A, Tail(ks), axis + 1)

RECURSIVE RefData(_, _, _, _)
RefData(A, ks, axis, off) ==
    IF ks = <<>> THEN <<A.data[off + 1]>>
    ELSE LET stride == Prod(SubSeq(A.shape, axis + 1, Len(A.shape)))
         IN  IF Head(ks).k = "none" THEN RefData(A, Tail(ks), axis, off)
             ELSE IF Head(ks).k = "int"
             THEN RefData(A, Tail(ks), axis + 1,
                            off + (Pos(Head(ks).v, A.shape[axis]) - 1) * stride)
             ELSE LET pos == SlicePos(Head(ks), A.shape[axis])
                  IN  Flatten([j \in 1..Len(pos) |->
                                  RefData(A, Tail(ks), axis + 1, off + (pos[j] - 1) * stride)])

DenseIndex(A, ks) ==
    LET e == DenseKey(ks, Len(A.shape))
    IN  Arr(RefShape(A, e, 1), RefData(A, e, 1, 0))

\* The dense array a result stands for: a scalar is an array without axes.
ResDense(r) == IF r.kind = "scalar" THEN Arr(<<>>, <<r.val>>) ELSE full(r.net)

(* ------------------------------ inputs --------------------------------- *)
RECURSIVE SeqsUpTo(_, _)
SeqsUpTo(S, n) ==
    IF n = 0 THEN {<<>>}
    ELSE LET shorter == SeqsUpTo(S, n - 1)
         IN  shorter \cup {Append(s, x) : s \in {q \in shorter : Len(q) = n - 1}, x \in S}

Shapes == {s \in SeqsUpTo(1..MaxSize, MaxDim) : Len(s) >= 1 /\ Prod(s) <= MaxElems}

DenseInputs == UNION {{Arr(s, d) : d \in [1..Prod(s) -> 0..MaxVal]} : s \in Shapes}

\* Explicit core lists with factors: the chain of a dense array with entries
\* 1, 2, 3, ... and, per mode, no factor or a factor with 2 or more rows
\* whose entries differ along each row and column.
Ramp(s) == Arr(s, [i \in 1..Prod(s) |-> i])

FactorOf(I, F) == Mk2(I, F, LAMBDA i, j : i + 2 * j - 2)

FactorChoices(F) == {None} \cup {FactorOf(I, F) : I \in 2..MaxSize}

CoreInputs ==
    UNION {LET cores == TensorFromDense(Ramp(s)).cores
           IN  {<<cores, Us>> :
                   Us \in {u \in [1..Len(s) -> UNION {FactorChoices(F) : F \in 1..MaxSize}] :
                              \A n \in 1..Len(s) : u[n] \in FactorChoices(s[n])}}
           : s \in {q \in Shapes : Len(q) <= MaxTuckerDim}}

\* The second operands: the chains of the dense inputs and the core lists.
Operands ==
    {<<A, TensorFromDense(A)>> : A \in DenseInputs}
    \cup {<<None, TensorOf(c[1], c[2])>> : c \in CoreInputs}

KeyEntries ==
    {KInt(0), KInt(-1), KFull, KSlice(1, 2), KNone, KEllipsis,
     KIndex(<<-1, 0>>), KIndex(<<0>>), KBad}

Keys == {ks \in SeqsUpTo(KeyEntries, MaxKeyLen) : Len(ks) >= 1}

(* --------------------------- state machine ----------------------------- *)
Init ==
    /\ dense = None
    /\ t = NoNet
    /\ odense = None
    /\ other = NoNet
    /\ key = <<>>
    /\ res = NoRes
    /\ op = "init"
    /\ given = <<>>
    /\ entry = NoNet
    /\ todo = <<>>
    /\ hold = None
    /\ orth = [mu |-> 0, flags |-> <<>>]
    /\ pool = <<>>
    /\ arg = <<>>

\* Tensor(A) for a dense array A.
Construct ==
    /\ op = "init"
    /\ \E A \in DenseInputs :
          /\ dense' = A
          /\ t' = TensorFromDense(A)
          /\ res' = NetRes(t')
    /\ op' = "construct"
    /\ UNCHANGED <<odense, other, key>>
    /\ UNCHANGED <<shapeVars, pool, arg>>

\* The keyword parameters of Tensor.__init__.
InitKeywords == {"Us", "idxs", "eps"}

\* Tensor(A, kw=v) for a dense array A and a value v other than None: a
\* keyword __init__ does not have is a TypeError of the call, and a value
\* for eps selects the TT-SVD branch.  (Us and idxs take lists.)
TensorKeyword(A, kw) ==
    IF kw \notin InitKeywords THEN ErrRes("TypeError")
    ELSE IF kw = "eps" THEN ErrRes("NotImplementedError")
    ELSE ErrRes("TypeError")

\* Tensor(A, batch=True), Tensor(A, batch=False) and Tensor(A, eps=v)
ConstructKeyword ==
    /\ op = "init"
    /\ \E A \in DenseInputs :
          \E kw \in {"batch", "eps"} :
              /\ dense' = A
              /\ res' = TensorKeyword(A, kw)
              /\ op' = IF kw = "batch" THEN "construct_batch" ELSE "construct_eps"
    /\ UNCHANGED <<t, odense, other, key>>
    /\ UNCHANGED <<shapeVars, pool, arg>>

\* The weight lists: up to MaxWeights different weights, in any order.
WeightLists ==
    {w \in SeqsUpTo(0..MaxWeight, MaxWeights) :
        Len(w) >= 1 /\ \A i, j \in 1..Len(w) : i # j => w[i] # w[j]}

\* t = weight_mask(N, weight) over binary modes
WeightMask ==
    /\ op = "init"
    /\ \E N \in 1..MaxMaskDim :
          \E w \in WeightLists :
              /\ arg' = w
              /\ res' = weight_mask(N, w, 2)
              /\ t' = res'.net
    /\ op' = "weight_mask"
    /\ UNCHANGED <<dense, odense, other, key>>
    /\ UNCHANGED <<shapeVars, pool>>

\* The keys of assignment: integers and slices, up to MaxSetKeyLen entries.
SetKeys ==
    {ks \in SeqsUpTo({KInt(0), KInt(-1), KInt(-2), KFull, KSlice(1, 2)}, MaxSetKeyLen) :
        Len(ks) >= 1}

\* The values of assignment: a scalar other than every entry, and 0; the
\* chain of a dense array of ones of up to MaxSetKeyLen modes.
SetScalars == {0, MaxVal + 1}

SetNetworks ==
    {TensorFromDense(A) :
        A \in {B \in DenseInputs :
                  Len(B.shape) <= MaxSetKeyLen /\ \A n \in 1..Len(B.data) : B.data[n] = 1}}

\* t[key] = v for a scalar v
SetItemScalar ==
    /\ op = "construct"
    /\ ~IsNone(dense)
    /\ \E v \in SetScalars :
          \E ks \in SetKeys :
              \E r \in {setitem(t, ks, NoNet, v, TRUE)} :
                  /\ key' = ks
                  /\ arg' = <<v>>
                  /\ t' = r.self
                  /\ res' = r.res
    /\ op' = "setitem"
    /\ UNCHANGED <<dense, odense, other>>
    /\ UNCHANGED <<shapeVars, pool>>

\* t[key] = value for a network value
SetItemNetwork ==
    /\ op = "construct"
    /\ ~IsNone(dense)
    /\ \E value \in SetNetworks :
          \E ks \in SetKeys :
              \E r \in {setitem(t, ks, value, 0, FALSE)} :
                  /\ key' = ks
                  /\ other' = value
                  /\ t' = r.self
                  /\ res' = r.res
    /\ op' = "setitem_network"
    /\ UNCHANGED <<dense, odense, arg>>
    /\ UNCHANGED <<shapeVars, pool>>

\* Tensor(cores, Us=Us) for a core list and a factor list.
ConstructCores ==
    /\ op = "init"
    /\ \E c \in CoreInputs :
          /\ res' = TensorInit(c[1], c[2])
          /\ res'.kind = "net"
          /\ t' = res'.net
    /\ op' = "construct"
    /\ UNCHANGED <<dense, odense, other, key>>
    /\ UNCHANGED <<shapeVars, pool, arg>>

\* t + other
Add ==
    /\ op = "construct"
    /\ \E o \in Operands :
          /\ odense' = o[1]
          /\ other' = o[2]
          /\ res' = TensorAdd(t, o[2])
    /\ op' = "add"
    /\ UNCHANGED <<dense, t, key>>
    /\ UNCHANGED <<shapeVars, pool, arg>>

\* t * other
Mul ==
    /\ op = "construct"
    /\ \E o \in Operands :
          /\ odense' = o[1]
          /\ other' = o[2]
          /\ res' = TensorMul(t, o[2])
    /\ op' = "mul"
    /\ UNCHANGED <<dense, t, key>>
    /\ UNCHANGED <<shapeVars, pool, arg>>

\* t[key] for a tuple key
GetItem ==
    /\ op = "construct"
    /\ \E ks \in Keys :
          /\ key' = ks
          /\ res' = getitem(t, ks)
    /\ op' = "getitem"
    /\ UNCHANGED <<dense, t, odense, other>>
    /\ UNCHANGED <<shapeVars, pool, arg>>

\* t[mask] for a mask network
GetItemMask ==
    /\ op = "construct"
    /\ \E A \in DenseInputs :
          /\ odense' = A
          /\ other' = TensorFromDense(A)
          /\ t' = getitem_mask(t, other').self
          /\ res' = getitem_mask(t, other').res
    /\ op' = "getitem_mask"
    /\ UNCHANGED <<dense, key>>
    /\ UNCHANGED <<shapeVars, pool, arg>>

Next ==
    \/ Construct \/ ConstructKeyword \/ ConstructCores \/ WeightMask
    \/ Add \/ Mul \/ GetItem \/ GetItemMask

Spec == Init /\ [][Next]_vars

\* Assignment on its own: a network is built from a dense array and then
\* assigned to.
NextSet == Construct \/ SetItemScalar \/ SetItemNetwork

SpecSet == Init /\ [][NextSet]_vars

(* ------------------- shapes only: the sweeps, stepwise ----------------- *)
\* An array of which only the shape is kept.
Sh(s) == Arr(s, <<>>)

\* torch.qr of an m x n matrix with the columns of Q made as many as its
\* rows: Q is m x m.
QRRankComplete(m, n) == m

\* torch.qr of an m x n matrix (reduced): Q is m x k and R is k x n for
\* k = min(m, n).
QRRank(m, n) == Min(m, n)

\* tn.left_unfolding and tn.right_unfolding of a three-axis core of shape c:
\* the shapes of the matrices [R0 * F, R1] and [R0, F * R1].
left_unfolding(c) == <<c[1] * c[2], c[3]>>

right_unfolding(c) == <<c[1], c[2] * c[3]>>

\* tn.truncated_svd of an m x n matrix: left is m x k and right is k x n for
\* some k of 1..min(m, n); which k depends on the singular values.
truncated_svd(m, n) == 1..Min(m, n)

\* A step of a running call: the statement f on mode mu (1-based); for the
\* branch of round(), eps says whether the tolerance is positive.
Step(f, mu) == [f |-> f, mu |-> mu, eps |-> FALSE]

\* factor_orthogonalize(mu), then the QR of the left unfolding and the
\* product with the next core.
left_orthogonalize(mu) ==
    <<Step("factor_qr", mu), Step("factor_push", mu),
      Step("left_qr", mu), Step("left_push", mu)>>

right_orthogonalize(mu) ==
    <<Step("factor_qr", mu), Step("factor_push", mu),
      Step("right_qr", mu), Step("right_push", mu)>>

\* orthogonalize with the modes right of mu taken in increasing order.
orthogonalizeAscending(N, mu) ==
    Flatten([i \in 1..(mu - 1) |-> left_orthogonalize(i)])
    \o Flatten([j \in 1..(N - mu) |-> right_orthogonalize(mu + j)])

\* orthogonalize(mu) on N modes: modes 1..mu-1 from the left, then modes
\* N..mu+1 from the right.
orthogonalize(N, mu) ==
    Flatten([i \in 1..(mu - 1) |-> left_orthogonalize(i)])
    \o Flatten([j \in 1..(N - mu) |-> right_orthogonalize(N + 1 - j)])

\* round_tt on N modes: orthogonalize towards the last core, then truncate
\* from mode N down to mode 2.
round_tt(N) ==
    orthogonalize(N, N)
    \o Flatten([j \in 1..(N - 1) |-> <<Step("tt_trunc", N + 1 - j), Step("tt_push", N + 1 - j)>>])

\* round_tucker on N modes: orthogonalize towards the first core, then per
\* mode the five statements of the loop and, but for the last mode,
\* left_orthogonalize.
round_tucker(N) ==
    orthogonalize(N, 1)
    \o Flatten([mu \in 1..N |->
                   <<Step("tucker_eye", mu), Step("tucker_qr", mu), Step("tucker_push", mu),
                     Step("tucker_trunc", mu), Step("tucker_fold", mu)>>
                   \o (IF mu < N THEN left_orthogonalize(mu) ELSE <<>>)])

\* round(eps) on N modes: round_tt, then the comparison of the error reached
\* with eps.
round(N, eps) == round_tt(N) \o <<[f |-> "branch", mu |-> 0, eps |-> eps]>>

\* The receiver with the shape of core mu, or of factor mu, replaced.
WithCore(x, mu, s) == [x EXCEPT !.cores[mu] = Sh(s)]

WithU(x, mu, s) == [x EXCEPT !.Us[mu] = Sh(s)]

\* All cores have three axes.
TTForm(x) == \A n \in 1..ndim(x) : Dim(x.cores[n]) = 3

\* The core lists handed to Tensor(cores): up to MaxCores cores of two or
\* three axes with sizes up to MaxRank, and cores of one axis and of MaxAxes
\* axes (their inner axes of size 1).
CoreShapes ==
    {q \in SeqsUpTo(1..MaxRank, MaxAxes) :
        \/ Len(q) \in {2, 3}
        \/ Len(q) \in {1, MaxAxes} /\ \A i \in 2..(Len(q) - 1) : q[i] = 1}

CoreLists == {cs \in SeqsUpTo({Sh(q) : q \in CoreShapes}, MaxCores) : Len(cs) >= 1}

\* The factor lists handed along with a core list: per mode no factor, or
\* a factor with as many columns as the second axis of the core is long.
FactorShapes(c) ==
    {None} \cup (IF Dim(c) >= 2 THEN {Sh(<<I, c.shape[2]>>) : I \in 1..MaxRank} ELSE {})

FactorLists(cs) ==
    {Us \in [1..Len(cs) -> UNION {FactorShapes(cs[n]) : n \in 1..Len(cs)}] :
        \A n \in 1..Len(cs) : Us[n] \in FactorShapes(cs[n])}

\* Tensor(cores)
ConstructList ==
    /\ op = "init"
    /\ \E cs \in CoreLists :
          /\ given' = cs
          /\ res' = TensorInit(cs, NoUs(Len(cs)))
          /\ t' = res'.net
    /\ op' = "cores"
    /\ UNCHANGED <<dense, odense, other, key, entry, todo, hold, pool, arg>>
    /\ UNCHANGED orth

\* Tensor(cores, Us=Us)
ConstructFactors ==
    /\ op = "init"
    /\ \E cs \in CoreLists :
          \E Us \in FactorLists(cs) :
              /\ given' = cs
              /\ res' = TensorInit(cs, Us)
              /\ t' = res'.net
    /\ op' = "cores_us"
    /\ UNCHANGED <<dense, odense, other, key, entry, todo, hold, pool, arg>>
    /\ UNCHANGED orth

\* The sweeps are called on a chain of three-axis cores.
Callable == op \in {"cores", "cores_us"} /\ res.kind = "net" /\ TTForm(t)

\* t.round_tt(eps)
CallRoundTT ==
    /\ Callable
    /\ entry' = t
    /\ todo' = round_tt(ndim(t))
    /\ op' = "round_tt"
    /\ res' = NoRes
    /\ UNCHANGED <<dense, t, odense, other, key, given, hold, pool, arg>>
    /\ orth' = [mu |-> 0, flags |-> [n \in 1..ndim(t) |-> "none"]]

\* t.round_tucker(eps)
CallRoundTucker ==
    /\ Callable
    /\ entry' = t
    /\ todo' = round_tucker(ndim(t))
    /\ op' = "round_tucker"
    /\ res' = NoRes
    /\ UNCHANGED <<dense, t, odense, other, key, given, hold, pool, arg>>
    /\ orth' = [mu |-> 0, flags |-> [n \in 1..ndim(t) |-> "none"]]

\* Fractions n/d with d > 0 for the tolerances and the errors; d = 0 stands
\* for nan, which compares false with everything.
Q(n, d) == [n |-> n, d |-> d]

Zero == Q(0, 1)

One == Q(1, 1)

NaN == Q(0, 0)

QAdd(a, b) == Q(a.n * b.d + b.n * a.d, a.d * b.d)

QSub(a, b) == Q(a.n * b.d - b.n * a.d, a.d * b.d)

QMul(a, b) == Q(a.n * b.n, a.d * b.d)

QDiv(a, b) == Q(a.n * b.d, a.d * b.n)

QLess(a, b) == a.d > 0 /\ b.d > 0 /\ a.n * b.d < b.n * a.d

QEq(a, b) == a.d > 0 /\ b.d > 0 /\ a.n * b.d = b.n * a.d

\* The tolerances handed to round, and the errors tn.relative_error may
\* return: a distance over a norm, so a fraction that is not negative, or
\* nan (0/0 for a network of norm 0).
Tolerances == {Zero, Q(1, MaxDen)}

Errors == {Q(n, 2 * MaxDen) : n \in 0..(2 * MaxDen + 1)} \cup {NaN}

\* The test of round with "at most" for "below".
BelowOrEqual(reached, eps) == QLess(reached, eps) \/ QEq(reached, eps)

\* reached < eps
Below(reached, eps) == QLess(reached, eps)

\* (1+eps) / (1+reached) - 1
Budget(eps, reached) == QSub(QDiv(QAdd(One, eps), QAdd(One, reached)), One)

\* t.round(eps), for eps = 0 and for a positive eps: the clone, then
\* round_tt(eps).
CallRound ==
    /\ Callable
    /\ \E eps \in Tolerances :
          /\ todo' = round(ndim(t), QLess(Zero, eps))
          /\ arg' = [eps |-> eps, reached |-> Zero, budget |-> Zero,
                     calls |-> <<"clone", "round_tt">>]
    /\ entry' = t
    /\ op' = "round"
    /\ res' = NoRes
    /\ UNCHANGED <<dense, t, odense, other, key, given, hold, pool>>
    /\ orth' = [mu |-> 0, flags |-> [n \in 1..ndim(t) |-> "none"]]

\* t.orthogonalize(mu), for every mode mu
CallOrthogonalize ==
    /\ Callable
    /\ \E mu \in 1..ndim(t) :
          /\ todo' = orthogonalize(ndim(t), mu)
          /\ orth' = [mu |-> mu, flags |-> [n \in 1..ndim(t) |-> "none"]]
    /\ entry' = t
    /\ op' = "orthogonalize"
    /\ res' = NoRes
    /\ UNCHANGED <<dense, t, odense, other, key, given, hold, pool, arg>>

\* What stands in the place of a core after self.cores[mu] = self.cores: the
\* list of cores itself, which is no array (no dim(), no shape); here a
\* value of one axis of length 0, which no array of the model is.
CoresList == Sh(<<0>>)

\* t.left_orthogonalize(mu) for 0 <= mu < N - 1.  On a chain of three-axis
\* cores the four statements run one by one.  On a core of two axes the
\* list of cores is assigned in its place (_cp_to_tt is not called and has
\* no body); then factor_orthogonalize replaces the factor, if there is one,
\* by Q and asks the list for dim(), or else the unfolding is asked of the
\* list: the call raises with the list left in the place of the core.
CallLeftOrthogonalize ==
    /\ op \in {"cores", "cores_us"}
    /\ res.kind = "net"
    /\ \E mu \in 1..(ndim(t) - 1) :
          IF Dim(t.cores[mu]) = 2
          THEN /\ t' = LET listed == [t EXCEPT !.cores[mu] = CoresList]
                           U == t.Us[mu].shape
                       IN  IF IsNone(t.Us[mu]) THEN listed
                           ELSE WithU(listed, mu, <<U[1], QRRank(U[1], U[2])>>)
               /\ res' = ErrRes("AttributeError")
               /\ todo' = <<>>
               /\ orth' = [mu |-> mu, flags |-> [n \in 1..ndim(t) |-> "none"]]
          ELSE /\ TTForm(t)
               /\ t' = t
               /\ res' = NoRes
               /\ todo' = left_orthogonalize(mu)
               /\ orth' = [mu |-> mu, flags |-> [n \in 1..ndim(t) |-> "none"]]
    /\ entry' = t
    /\ op' = "left_orthogonalize"
    /\ UNCHANGED <<dense, odense, other, key, given, hold, pool, arg>>

\* The running call is at statement f.
At(f) == todo # <<>> /\ Head(todo).f = f

\* factor_orthogonalize: return when the mode has no factor, else the QR of
\* the factor; Q replaces the factor.
FactorQR ==
    /\ At("factor_qr")
    /\ LET mu == Head(todo).mu
           U == t.Us[mu].shape
       IN  IF IsNone(t.Us[mu])
           THEN /\ todo' = Tail(Tail(todo))
                /\ UNCHANGED <<t, hold>>
           ELSE /\ t' = WithU(t, mu, <<U[1], QRRank(U[1], U[2])>>)
                /\ hold' = Sh(<<QRRank(U[1], U[2]), U[2]>>)
                /\ todo' = Tail(todo)
    /\ UNCHANGED <<dense, odense, other, key, res, op, given, entry, pool, arg>>
    /\ UNCHANGED orth

\* factor_orthogonalize: R is contracted with the free axis of the core.
FactorPush ==
    /\ At("factor_push")
    /\ LET mu == Head(todo).mu
           c == t.cores[mu].shape
       IN  t' = WithCore(t, mu, <<c[1], hold.shape[1], c[3]>>)
    /\ todo' = Tail(todo)
    /\ UNCHANGED <<dense, odense, other, key, res, op, given, entry, hold, pool, arg>>
    /\ orth' = [orth EXCEPT !.flags[Head(todo).mu] = "none"]

\* left_orthogonalize: the QR of the left unfolding; Q replaces the core.
LeftQR ==
    /\ At("left_qr")
    /\ LET mu == Head(todo).mu
           c == t.cores[mu].shape
           k == QRRank(left_unfolding(c)[1], left_unfolding(c)[2])
       IN  /\ t' = WithCore(t, mu, <<c[1], c[2], k>>)
           /\ hold' = Sh(<<k, c[3]>>)
    /\ todo' = Tail(todo)
    /\ UNCHANGED <<dense, odense, other, key, res, op, given, entry, pool, arg>>
    /\ orth' = [orth EXCEPT !.flags[Head(todo).mu] = "left"]

\* left_orthogonalize: R times the right unfolding of the next core.
LeftPush ==
    /\ At("left_push")
    /\ LET mu == Head(todo).mu
           c == t.cores[mu + 1].shape
       IN  t' = WithCore(t, mu + 1, <<hold.shape[1], c[2], c[3]>>)
    /\ todo' = Tail(todo)
    /\ UNCHANGED <<dense, odense, other, key, res, op, given, entry, hold, pool, arg>>
    /\ orth' = [orth EXCEPT !.flags[Head(todo).mu + 1] = "none"]

\* right_orthogonalize: the QR of the transposed right unfolding.
RightQR ==
    /\ At("right_qr")
    /\ LET mu == Head(todo).mu
           c == t.cores[mu].shape
           k == QRRank(right_unfolding(c)[2], right_unfolding(c)[1])
       IN  /\ t' = WithCore(t, mu, <<k, c[2], c[3]>>)
           /\ hold' = Sh(<<c[1], k>>)
    /\ todo' = Tail(todo)
    /\ UNCHANGED <<dense, odense, other, key, res, op, given, entry, pool, arg>>
    /\ orth' = [orth EXCEPT !.flags[Head(todo).mu] = "right"]

\* right_orthogonalize: the left unfolding of the previous core times L.
RightPush ==
    /\ At("right_push")
    /\ LET mu == Head(todo).mu
           c == t.cores[mu - 1].shape
       IN  t' = WithCore(t, mu - 1, <<c[1], c[2], hold.shape[2]>>)
    /\ todo' = Tail(todo)
    /\ UNCHANGED <<dense, odense, other, key, res, op, given, entry, hold, pool, arg>>
    /\ orth' = [orth EXCEPT !.flags[Head(todo).mu - 1] = "none"]

\* round_tucker: a mode without a factor gets the identity.
TuckerEye ==
    /\ At("tucker_eye")
    /\ LET mu == Head(todo).mu
       IN  t' = IF IsNone(t.Us[mu])
                THEN WithU(t, mu, <<ShapeAt(t, mu), ShapeAt(t, mu)>>)
                ELSE t
    /\ todo' = Tail(todo)
    /\ UNCHANGED <<dense, odense, other, key, res, op, given, entry, hold, pool, arg>>
    /\ UNCHANGED orth

\* round_tucker: the QR of the core unfolded along its free axis.
TuckerQR ==
    /\ At("tucker_qr")
    /\ LET mu == Head(todo).mu
           c == t.cores[mu].shape
           k == QRRank(c[1] * c[3], c[2])
       IN  /\ t' = WithCore(t, mu, <<c[1], k, c[3]>>)
           /\ hold' = Sh(<<k, c[2]>>)
    /\ todo' = Tail(todo)
    /\ UNCHANGED <<dense, odense, other, key, res, op, given, entry, pool, arg>>
    /\ orth' = [orth EXCEPT !.flags[Head(todo).mu] = "none"]

\* round_tucker: the factor times the transpose of R.
TuckerPush ==
    /\ At("tucker_push")
    /\ LET mu == Head(todo).mu
       IN  t' = WithU(t, mu, <<t.Us[mu].shape[1], hold.shape[1]>>)
    /\ todo' = Tail(todo)
    /\ UNCHANGED <<dense, odense, other, key, res, op, given, entry, hold, pool, arg>>
    /\ UNCHANGED orth

\* round_tucker: the truncated factorization of the factor; left replaces it.
TuckerTrunc ==
    /\ At("tucker_trunc")
    /\ LET mu == Head(todo).mu
           U == t.Us[mu].shape
       IN  \E k \in truncated_svd(U[1], U[2]) :
              /\ t' = WithU(t, mu, <<U[1], k>>)
              /\ hold' = Sh(<<k, U[2]>>)
    /\ todo' = Tail(todo)
    /\ UNCHANGED <<dense, odense, other, key, res, op, given, entry, pool, arg>>
    /\ UNCHANGED orth

\* round_tucker: right is contracted with the free axis of the core.
TuckerFold ==
    /\ At("tucker_fold")
    /\ LET mu == Head(todo).mu
           c == t.cores[mu].shape
       IN  t' = WithCore(t, mu, <<c[1], hold.shape[1], c[3]>>)
    /\ todo' = Tail(todo)
    /\ UNCHANGED <<dense, odense, other, key, res, op, given, entry, hold, pool, arg>>
    /\ orth' = [orth EXCEPT !.flags[Head(todo).mu] = "none"]

\* round_tt: the truncated factorization of the right unfolding; the right
\* factor replaces the core.
TTTrunc ==
    /\ At("tt_trunc")
    /\ LET mu == Head(todo).mu
           c == t.cores[mu].shape
       IN  \E k \in truncated_svd(right_unfolding(c)[1], right_unfolding(c)[2]) :
              /\ t' = WithCore(t, mu, <<k, c[2], c[3]>>)
              /\ hold' = Sh(<<c[1], k>>)
    /\ todo' = Tail(todo)
    /\ UNCHANGED <<dense, odense, other, key, res, op, given, entry, pool, arg>>
    /\ orth' = [orth EXCEPT !.flags[Head(todo).mu] = "none"]

\* round_tt: the previous core is contracted with the left factor.
TTPush ==
    /\ At("tt_push")
    /\ LET mu == Head(todo).mu
           c == t.cores[mu - 1].shape
       IN  t' = WithCore(t, mu - 1, <<c[1], c[2], hold.shape[2]>>)
    /\ todo' = Tail(todo)
    /\ UNCHANGED <<dense, odense, other, key, res, op, given, entry, hold, pool, arg>>
    /\ orth' = [orth EXCEPT !.flags[Head(todo).mu - 1] = "none"]

\* round: the error reached is measured against the clone, and
\* round_tucker follows with the budget left when the error is below eps,
\* which it is not for eps = 0.
RoundBranch ==
    /\ At("branch")
    /\ \E reached \in Errors :
          IF Below(reached, arg.eps)
          THEN /\ todo' = round_tucker(ndim(t))
               /\ arg' = [arg EXCEPT !.reached = reached,
                                     !.budget = Budget(arg.eps, reached),
                                     !.calls = @ \o <<"relative_error", "round_tucker">>]
          ELSE /\ todo' = <<>>
               /\ arg' = [arg EXCEPT !.reached = reached,
                                     !.calls = @ \o <<"relative_error">>]
    /\ UNCHANGED <<dense, t, odense, other, key, res, op, given, entry, hold, pool>>
    /\ UNCHANGED orth

NextShape ==
    \/ ConstructList \/ ConstructFactors
    \/ CallRoundTT \/ CallRoundTucker \/ CallRound \/ CallOrthogonalize
    \/ CallLeftOrthogonalize
    \/ FactorQR \/ FactorPush \/ LeftQR \/ LeftPush \/ RightQR \/ RightPush
    \/ TuckerEye \/ TuckerQR \/ TuckerPush \/ TuckerTrunc \/ TuckerFold
    \/ TTTrunc \/ TTPush \/ RoundBranch

SpecShape == Init /\ [][NextShape]_vars

(* --------------------- storage only: who owns what --------------------- *)
\* Here an array is the number of its storage: a view of an array has the
\* number of the array, a new array a number not in use.  A network is
\* Net(cores, Us, idxs) of such numbers; 0 in Us stands for no factor.
OwnIds(x) ==
    {x.cores[n] : n \in 1..Len(x.cores)}
    \cup ({x.Us[n] : n \in 1..Len(x.Us)} \ {0})
    \cup {x.idxs[n] : n \in 1..Len(x.idxs)}

\* The first number not in use by the networks of p.
Fresh(p) ==
    LET used == UNION {OwnIds(p[i]) : i \in 1..Len(p)}
    IN  IF used = {} THEN 1 ELSE 1 + CHOOSE m \in used : \A u \in used : u <= m

\* New arrays numbered from f on: n of them.
NewArrays(f, n) == [i \in 1..n |-> f + i - 1]

\* Tensor(cores, Us=Us) on arrays made for it: the network holds the arrays
\* it is given, and new index labels.
OwnTensor(f, hasU) ==
    LET N == Len(hasU)
    IN  Net(NewArrays(f, N),
            [n \in 1..N |-> IF hasU[n] THEN f + N + n - 1 ELSE 0],
            NewArrays(f + 2 * N, N))

\* clone(): the cores and the factors are cloned; idxs is handed on as it is.
OwnClone(f, x) ==
    LET N == ndim(x)
    IN  Net(NewArrays(f, N),
            [n \in 1..N |-> IF x.Us[n] # 0 THEN f + N + n - 1 ELSE 0],
            x.idxs)

\* x + y: every core is a torch.cat or a torch.sum of new arrays, a factor is
\* the torch.cat of the two factors where both modes have one.
OwnAdd(f, x, y) ==
    LET N == ndim(x)
    IN  Net(NewArrays(f, N),
            [n \in 1..N |-> IF N > 1 /\ x.Us[n] # 0 /\ y.Us[n] # 0 THEN f + N + n - 1 ELSE 0],
            NewArrays(f + 2 * N, N))

\* x * y: every core is an einsum or a tn.core_kron; on the cheap path of
\* mode n the factor is an einsum of the two factors.
OwnMul(f, x, y, cheap) ==
    LET N == ndim(x)
    IN  Net(NewArrays(f, N),
            [n \in 1..N |-> IF x.Us[n] # 0 /\ y.Us[n] # 0 /\ cheap[n] THEN f + N + n - 1 ELSE 0],
            NewArrays(f + 2 * N, N))

\* The registers of the scan of __getitem__, with next the first number not
\* in use.
OwnScanInit(f) ==
    [cores |-> <<>>, Us |-> <<>>, fint |-> 0, findex |-> 0, counter |-> 0,
     last_mode |-> "", next |-> f, err |-> ""]

\* insert_core(factors, core, key, U) for a slice key: core[:, key, :] and
\* U[key, :] are views, an einsum is a new array.
OwnInsertCore(st, hasCore, core, U) ==
    LET flushed ==
            IF st.findex # 0
            THEN IF st.fint # 0
                 THEN [st EXCEPT !.cores = Append(st.cores, st.next),
                                 !.Us = Append(st.Us, 0),
                                 !.fint = 0, !.findex = 0, !.next = st.next + 1]
                 ELSE [st EXCEPT !.cores = Append(st.cores, st.findex),
                                 !.Us = Append(st.Us, 0),
                                 !.findex = 0]
            ELSE st
    IN  IF ~hasCore THEN flushed
        ELSE IF flushed.fint # 0
        THEN [flushed EXCEPT !.cores = Append(flushed.cores, flushed.next),
                             !.Us = Append(flushed.Us, U),
                             !.fint = 0, !.next = flushed.next + 1]
        ELSE [flushed EXCEPT !.cores = Append(flushed.cores, core),
                             !.Us = Append(flushed.Us, U)]

\* One pass of the loop of __getitem__.  get_key returns a view of the core
\* for an integer on a mode without a factor, and a new array otherwise.
OwnScanStep(x, st, e) ==
    LET c == st.counter + 1
        this_mode == ThisMode(e)
    IN  IF this_mode = "bad" THEN [st EXCEPT !.err = "IndexError"]
        ELSE IF c > ndim(x) THEN [st EXCEPT !.err = "IndexError"]
        ELSE IF this_mode = "none"
        THEN [OwnInsertCore([st EXCEPT !.next = st.next + 1], TRUE, st.next, 0)
                 EXCEPT !.last_mode = this_mode]
        ELSE IF this_mode = "slice"
        THEN [OwnInsertCore(st, TRUE, x.cores[c], x.Us[c])
                 EXCEPT !.counter = c, !.last_mode = this_mode]
        ELSE IF this_mode = "index"
        THEN [st EXCEPT !.findex = st.next, !.next = st.next + 1,
                        !.counter = c, !.last_mode = this_mode]
        ELSE LET flushed == IF st.last_mode = "index"
                            THEN OwnInsertCore(st, FALSE, 0, 0) ELSE st
             IN  IF flushed.fint = 0 /\ x.Us[c] = 0
                 THEN [flushed EXCEPT !.fint = x.cores[c],
                                      !.counter = c, !.last_mode = this_mode]
                 ELSE [flushed EXCEPT !.fint = flushed.next, !.next = flushed.next + 1,
                                      !.counter = c, !.last_mode = this_mode]

RECURSIVE OwnScan(_, _, _, _)
OwnScan(x, st, ks, i) ==
    IF i > Len(ks) \/ st.err # "" THEN st
    ELSE OwnScan(x, OwnScanStep(x, st, ks[i]), ks, i + 1)

\* Tensor.__getitem__ for a tuple key: the network returned, or NoNet when
\* the call raises or returns a scalar.
OwnGetItem(f, x, ks) ==
    LET pk == process_key(x, ks)
        st == OwnScan(x, OwnScanInit(f), pk.key, 1)
        cores == IF st.last_mode = "index" THEN Append(st.cores, st.findex)
                 ELSE IF st.last_mode = "int" /\ Len(st.cores) > 0
                 THEN [st.cores EXCEPT ![Len(st.cores)] = st.next]
                 ELSE st.cores
        Us == IF st.last_mode = "index" THEN Append(st.Us, 0) ELSE st.Us
    IN  IF pk.err # "" \/ st.err # "" THEN NoNet
        ELSE IF st.last_mode = "int" /\ Len(st.cores) = 0 THEN NoNet
        ELSE Net(cores, Us, NewArrays(st.next + 1, Len(cores)))

\* The keys of the storage view: the position is always 0, and a key names
\* at most MaxOwnDim entries.
OwnKeys ==
    {ks \in SeqsUpTo({KInt(0), KFull, KNone, KIndex(<<0>>)}, MaxOwnDim) : Len(ks) >= 1}

\* t = Tensor(cores, Us=Us) on arrays of the caller made for it
NewTensor ==
    /\ Len(pool) < MaxNets
    /\ \E N \in 1..MaxOwnDim :
          \E hasU \in [1..N -> BOOLEAN] :
              pool' = Append(pool, OwnTensor(Fresh(pool), hasU))
    /\ op' = "tensor"
    /\ UNCHANGED <<dense, t, odense, other, key, res, shapeVars, arg>>

\* r = t.clone()
Clone ==
    /\ Len(pool) < MaxNets
    /\ \E i \in 1..Len(pool) :
          pool' = Append(pool, OwnClone(Fresh(pool), pool[i]))
    /\ op' = "clone"
    /\ UNCHANGED <<dense, t, odense, other, key, res, shapeVars, arg>>

\* r = t + u
Plus ==
    /\ Len(pool) < MaxNets
    /\ \E i, j \in 1..Len(pool) :
          /\ ndim(pool[i]) = ndim(pool[j])
          /\ pool' = Append(pool, OwnAdd(Fresh(pool), pool[i], pool[j]))
    /\ op' = "add"
    /\ UNCHANGED <<dense, t, odense, other, key, res, shapeVars, arg>>

\* r = t - u, which is t + (-1 * u), and -1 * u is a scaled clone of u
Minus ==
    /\ Len(pool) < MaxNets
    /\ \E i, j \in 1..Len(pool) :
          /\ ndim(pool[i]) = ndim(pool[j])
          /\ LET negated == OwnClone(Fresh(pool), pool[j])
             IN  pool' = Append(pool, OwnAdd(Fresh(Append(pool, negated)), pool[i], negated))
    /\ op' = "sub"
    /\ UNCHANGED <<dense, t, odense, other, key, res, shapeVars, arg>>

\* r = None + t
ReflectedPlus ==
    /\ Len(pool) < MaxNets
    /\ \E i \in 1..Len(pool) :
          pool' = Append(pool, pool[i])
    /\ op' = "radd"
    /\ UNCHANGED <<dense, t, odense, other, key, res, shapeVars, arg>>

\* r = t * v for a scalar v: a clone, scaled in place
Scale ==
    /\ Len(pool) < MaxNets
    /\ \E i \in 1..Len(pool) :
          pool' = Append(pool, OwnClone(Fresh(pool), pool[i]))
    /\ op' = "scale"
    /\ UNCHANGED <<dense, t, odense, other, key, res, shapeVars, arg>>

\* r = t * u
Times ==
    /\ Len(pool) < MaxNets
    /\ \E i, j \in 1..Len(pool) :
          /\ ndim(pool[i]) = ndim(pool[j])
          /\ \E cheap \in [1..ndim(pool[i]) -> BOOLEAN] :
                pool' = Append(pool, OwnMul(Fresh(pool), pool[i], pool[j], cheap))
    /\ op' = "mul"
    /\ UNCHANGED <<dense, t, odense, other, key, res, shapeVars, arg>>

\* r = t[key]
Index ==
    /\ Len(pool) < MaxNets
    /\ \E i \in 1..Len(pool) :
          \E ks \in OwnKeys :
              /\ key' = ks
              /\ pool' = IF OwnGetItem(Fresh(pool), pool[i], ks) = NoNet THEN pool
                         ELSE Append(pool, OwnGetItem(Fresh(pool), pool[i], ks))
    /\ op' = "getitem"
    /\ UNCHANGED <<dense, t, odense, other, res, shapeVars, arg>>

NextOwn ==
    NewTensor \/ Clone \/ Plus \/ Minus \/ ReflectedPlus \/ Scale \/ Times \/ Index

SpecOwn == Init /\ [][NextOwn]_vars

(* ---------------------------- properties -------------------------------- *)
\* The rank a core shares with its left neighbour, the rank it shares with
\* its right neighbour, and its free dimension; a two-axis (CP) core has one
\* rank, shared with both.
LeadRank(c) == IF Dim(c) = 3 THEN c.shape[1] ELSE c.shape[2]

TrailRank(c) == c.shape[Dim(c)]

FreeDim(c) == c.shape[Dim(c) - 1]

Structural(x) ==
    /\ Len(x.Us) = ndim(x)
    /\ Len(x.idxs) = ndim(x)
    /\ \A n \in 1..(ndim(x) - 1) : TrailRank(x.cores[n]) = LeadRank(x.cores[n + 1])
    /\ ndim(x) >= 1 => LeadRank(x.cores[1]) = 1 /\ TrailRank(x.cores[ndim(x)]) = 1
    /\ \A n \in 1..ndim(x) :
          IsNone(x.Us[n]) \/ x.Us[n].shape[2] = FreeDim(x.cores[n])

\* C1: every network an operation returns, and the receiver after the
\* operation, has as many factors and index-label arrays as cores, matching
\* adjacent ranks, boundary ranks 1, and factors with as many columns as
\* their core's free dimension.
C1_Structure ==
    /\ op # "init" => Structural(t)
    /\ res.kind = "net" => Structural(res.net)

\* A chain of three-axis cores with matching adjacent ranks and boundary
\* ranks 1.
IsTTChain(x) ==
    /\ \A n \in 1..ndim(x) : Dim(x.cores[n]) = 3
    /\ \A n \in 1..(ndim(x) - 1) : x.cores[n].shape[3] = x.cores[n + 1].shape[1]
    /\ ndim(x) >= 1 => x.cores[1].shape[1] = 1 /\ x.cores[ndim(x)].shape[3] = 1

\* C2: Tensor(A) is a chain of N three-axis cores with matching adjacent
\* ranks and boundary ranks 1, and Tensor(A).full() has the shape of A and
\* every entry of A.
C2_RoundTrip ==
    (op = "construct" /\ ~IsNone(dense)) =>
        /\ ndim(t) = Len(dense.shape)
        /\ IsTTChain(t)
        /\ full(t) = dense

ArithmeticAll ==
    (op \in {"add", "mul"} /\ shape(t) = shape(other)) =>
        /\ res.kind = "net"
        /\ full(res.net).shape = full(t).shape
        /\ \A n \in 1..Len(full(t).data) :
              full(res.net).data[n] =
                  IF op = "add" THEN full(t).data[n] + full(other).data[n]
                  ELSE full(t).data[n] * full(other).data[n]

\* The keys of C4: integers in range, slices, None entries and at most one
\* Ellipsis, naming at most ndim modes.
DenseStyleKey(x, ks) ==
    /\ \A i \in 1..Len(ks) : ks[i].k \in {"int", "slice", "none", "ellipsis"}
    /\ Count(ks, "ellipsis") <= 1
    /\ Consuming(ks) <= ndim(x)
    /\ LET e == DenseKey(ks, ndim(x))
       IN  \A i \in 1..Len(e) :
              e[i].k = "int" =>
                  InRange(e[i].v, shape(x)[Cardinality({j \in 1..i : e[j].k # "none"})])

\* C4: t[key] succeeds for every key of integers, slices, None entries and
\* at most one Ellipsis, and its shape and entries are those of the dense
\* array indexed by the same key.
C4_DenseSemantics ==
    (op = "getitem" /\ DenseStyleKey(t, key)) =>
        /\ res.kind \in {"net", "scalar"}
        /\ ResDense(res) = DenseIndex(full(t), key)

\* The same, for the keys where no None entry follows the last input mode.
NoTrailingNone(x, ks) ==
    LET e == DenseKey(ks, ndim(x))
    IN  \A i \in 1..Len(e) :
           e[i].k = "none" => \E j \in (i + 1)..Len(e) : e[j].k # "none"

C4_Partial ==
    (op = "getitem" /\ DenseStyleKey(t, key) /\ NoTrailingNone(t, key)) =>
        /\ res.kind \in {"net", "scalar"}
        /\ ResDense(res) = DenseIndex(full(t), key)

\* Index arrays in two or more groups, separated by at least one slice,
\* integer or None entry.
NonContiguousIndex(ks) ==
    \E i, j, l \in 1..Len(ks) :
        /\ i < j /\ j < l
        /\ ks[i].k = "index" /\ ks[l].k = "index"
        /\ ks[j].k \in {"slice", "int", "none"}

\* C8: t[key] raises, and returns no network, for every key whose index
\* arrays form two or more groups separated by a slice, integer or None.
C8_NonContiguousRejected ==
    (op = "getitem" /\ NonContiguousIndex(key)) => res.kind = "error"

\* The malformed keys of C9: more than one Ellipsis, more entries that name a
\* mode (entries other than None and the Ellipsis) than ndim, an entry of an
\* unsupported type, or two consecutive index arrays of different lengths.
Malformed(x, ks) ==
    \/ Count(ks, "ellipsis") > 1
    \/ Len(ks) - Count(ks, "none") - Count(ks, "ellipsis") > ndim(x)
    \/ Count(ks, "bad") > 0
    \/ \E i \in 1..(Len(ks) - 1) :
          /\ ks[i].k = "index" /\ ks[i + 1].k = "index"
          /\ Len(ks[i].idx) # Len(ks[i + 1].idx)

\* C9: t[key] raises, returns nothing and leaves t as it was, for every
\* malformed key and for every mask network whose sum is not 1.
C9_MalformedRejected ==
    [][/\ (op' = "getitem" /\ Malformed(t, key')) => (res'.kind = "error" /\ t' = t)
       /\ (op' = "getitem_mask" /\ sum(other') # 1) => (res'.kind = "error" /\ t' = t)]_vars

\* The rank a mode's factor may have after rounding: the rank of the factor
\* the mode had, or the logical size of a mode that had none.
TuckerBound(x, n) == IF IsNone(x.Us[n]) THEN ShapeAt(x, n) ELSE x.Us[n].shape[2]

\* C6: from the start of round_tt, round_tucker or round to its end, after
\* every QR and truncation step, the receiver has the modes and the logical
\* shape it had at the start, no core has a leading or trailing rank or a
\* free dimension above the one it had, and no factor has more columns than
\* the factor of that mode had (than the mode is long, if it had none).
C6_RanksNeverGrow ==
    op \in {"round_tt", "round_tucker", "round"} =>
        /\ ndim(t) = ndim(entry)
        /\ \A n \in 1..ndim(t) :
              /\ ShapeAt(t, n) = ShapeAt(entry, n)
              /\ t.cores[n].shape[1] <= entry.cores[n].shape[1]
              /\ t.cores[n].shape[3] <= entry.cores[n].shape[3]
              /\ t.cores[n].shape[2] <= entry.cores[n].shape[2]
              /\ ~IsNone(t.Us[n]) => t.Us[n].shape[2] <= TuckerBound(entry, n)

\* The defects of a core list: a core with an axis count other than 2 or 3,
\* or an adjacent pair whose ranks differ.
Defect(cs) ==
    \/ \E n \in 1..Len(cs) : Dim(cs[n]) \notin {2, 3}
    \/ \E n \in 1..(Len(cs) - 1) : TrailRank(cs[n]) # LeadRank(cs[n + 1])

\* C7: Tensor(cores) raises, and leaves no network, exactly when the list
\* has a core with an axis count other than 2 or 3 or an adjacent pair whose
\* ranks differ; any other list becomes the cores of the network.
C7_ListValidated ==
    op = "cores" =>
        /\ res.kind = "error" <=> Defect(given)
        /\ res.kind = "error" => t = NoNet
        /\ res.kind = "net" => t.cores = given /\ res.net = t

\* C10: no two of the networks alive hold the same storage: each core,
\* factor and index-label array of a result belongs to that result alone.
C10_Exclusive ==
    \A i, j \in 1..Len(pool) :
        i # j => OwnIds(pool[i]) \cap OwnIds(pool[j]) = {}

\* The same for results of + (of two networks), - and * alone.
ArithmeticExclusive ==
    op \in {"add", "sub", "mul"} =>
        \A i \in 1..(Len(pool) - 1) :
            OwnIds(pool[i]) \cap OwnIds(pool[Len(pool)]) = {}

\* C14: for TT-form a and b of one logical shape and N >= 2, a + b has that
\* shape, boundary ranks 1 and interior ranks the sums of the operands'
\* ranks, and carries a factor on a mode exactly when both operands do, with
\* the two column counts added and equal to the new core's free dimension;
\* a * b has that shape and ranks the products of the operands' ranks, and
\* carries a factor exactly when both operands do and the product of their
\* column counts is smaller than the logical size, with that product as
\* column count.
C14_Ranks ==
    (op \in {"add", "mul"} /\ shape(t) = shape(other) /\ ndim(t) >= 2
     /\ IsTTChain(t) /\ IsTTChain(other)) =>
        /\ res.kind = "net"
        /\ LET r == res.net
               N == ndim(t)
               both(n) == ~IsNone(t.Us[n]) /\ ~IsNone(other.Us[n])
           IN  /\ shape(r) = shape(t)
               /\ LeadRank(r.cores[1]) = 1
               /\ TrailRank(r.cores[N]) = 1
               /\ \A n \in 1..(N - 1) :
                     TrailRank(r.cores[n]) =
                         IF op = "add"
                         THEN TrailRank(t.cores[n]) + TrailRank(other.cores[n])
                         ELSE TrailRank(t.cores[n]) * TrailRank(other.cores[n])
               /\ \A n \in 1..N :
                     IF op = "add"
                     THEN /\ ~IsNone(r.Us[n]) <=> both(n)
                          /\ both(n) =>
                                /\ r.Us[n].shape[2] = t.Us[n].shape[2] + other.Us[n].shape[2]
                                /\ r.Us[n].shape[2] = FreeDim(r.cores[n])
                     ELSE LET cheap == both(n)
                                       /\ t.Us[n].shape[2] * other.Us[n].shape[2] < ShapeAt(t, n)
                          IN  /\ ~IsNone(r.Us[n]) <=> cheap
                              /\ cheap =>
                                    /\ r.Us[n].shape[2] = t.Us[n].shape[2] * other.Us[n].shape[2]
                                    /\ r.Us[n].shape[2] = FreeDim(r.cores[n])

\* C15: no integer selection is lost by t[key]: for every key the scan
\* accepts, the result is a bare scalar exactly when every mode is consumed
\* by an integer and the key has no None entry, and otherwise a network
\* whose first core has leading rank 1 (every pending integer selection has
\* been contracted into a core of the result).
C15_IntegerKept ==
    (op = "getitem" /\ res.kind \in {"net", "scalar"}) =>
        LET e == process_key(t, key).key
            allInt == \A i \in 1..Len(e) : e[i].k = "int"
        IN  /\ res.kind = "scalar" <=> allInt
            /\ res.kind = "net" =>
                  /\ ndim(res.net) >= 1
                  /\ LeadRank(res.net.cores[1]) = 1

\* C16: left_orthogonalize(mu) on a core of two axes (CP form) turns it
\* into a three-axis core: the call returns, core mu is a numeric array of
\* three axes, the logical shape is the one before the call and the
\* structural invariants hold.
C16_Promoted ==
    (op = "left_orthogonalize" /\ todo = <<>> /\ Dim(entry.cores[orth.mu]) = 2) =>
        /\ res.kind # "error"
        /\ Dim(t.cores[orth.mu]) = 3
        /\ ndim(t) = ndim(entry)
        /\ \A n \in 1..ndim(t) : ShapeAt(t, n) = ShapeAt(entry, n)
        /\ Structural(t)

\* The statements of round_tucker's own loop.
TuckerSteps == {"tucker_eye", "tucker_qr", "tucker_push", "tucker_trunc", "tucker_fold"}

Selected(shp, e) ==
    {p \in 1..Prod(shp) :
        \A n \in 1..Len(shp) :
            LET stride == Prod(SubSeq(shp, n + 1, Len(shp)))
                at == (((p - 1) \div stride) % shp[n]) + 1
                pos == IF e[n].k = "int" THEN IntPos(e[n].v, shp[n]) ELSE SlicePos(e[n], shp[n])
            IN  \E a \in 1..Len(pos) : pos[a] = at}

\* A key of integers in range and slices, no longer than the network has
\* modes.
AssignKey(shp, ks) ==
    /\ Len(ks) <= Len(shp)
    /\ \A i \in 1..Len(ks) : ks[i].k = "int" => InRange(ks[i].v, shp[i])

\* C18: t[key] = v for a scalar v, a TT-form t without factors and a key of
\* slices and integers, negative ones included: afterwards t, materialized,
\* is v at the selected positions and what it was elsewhere, with the shape
\* and the index labels it had; a network value whose sizes do not match
\* the selection makes the assignment raise and leaves t as it was.
C18_Assigned ==
    /\ (op = "setitem" /\ AssignKey(dense.shape, key)) =>
          LET e == key \o Repeat(KFull, Len(dense.shape) - Len(key))
              sel == Selected(dense.shape, e)
          IN  /\ res.kind # "error"
              /\ full(t).shape = dense.shape
              /\ \A p \in 1..Len(dense.data) :
                    full(t).data[p] = IF p \in sel THEN arg[1] ELSE dense.data[p]
              /\ t.idxs = TensorFromDense(dense).idxs
    /\ (op = "setitem_network" /\ AssignKey(dense.shape, key)) =>
          LET e == key \o Repeat(KFull, Len(dense.shape) - Len(key))
              mismatch == \E n \in 1..Len(e) :
                             \/ n > ndim(other)
                             \/ ShapeAt(other, n) #
                                    (IF e[n].k = "int" THEN 1
                                     ELSE Len(SlicePos(e[n], dense.shape[n])))
          IN  mismatch => res.kind = "error" /\ t = TensorFromDense(dense)

\* C19: indexing reads the receiver and does not write it: t[key], for a
\* tuple key of integers, slices, None entries and index arrays and for a
\* mask network, leaves every core, factor and index-label array of t with
\* the values it had before the call.
C19_ReadOnly == [][op' \in {"getitem", "getitem_mask"} => t' = t]_vars

\* The binary string of length N with number p, first symbol first.
Bits(p, N) == [n \in 1..N |-> (p \div (2 ^ (N - n))) % 2] \o <<>>

C12_BatchBuilt == op = "construct_batch" => res.kind = "net"

\* C11: orthogonalize(mu) takes the modes left of mu in increasing order
\* and then the modes right of mu in decreasing order, and a core made
\* orthogonal stays so: while it runs the left-orthogonal cores are the
\* modes 1..j for some j < mu, a core is right-orthogonal only once all
\* modes left of mu are left-orthogonal and all modes right of it are
\* right-orthogonal, and when it returns every mode left of mu is
\* left-orthogonal and every mode right of mu is right-orthogonal.
C11_MuOrthogonal ==
    op = "orthogonalize" =>
        LET N == ndim(t)
            f == orth.flags
        IN  /\ \A n \in 1..N : f[n] = "left" => n < orth.mu /\ \A m \in 1..n : f[m] = "left"
            /\ \A n \in 1..N :
                  f[n] = "right" =>
                      /\ n > orth.mu
                      /\ \A m \in n..N : f[m] = "right"
                      /\ \A m \in 1..(orth.mu - 1) : f[m] = "left"
            /\ todo = <<>> =>
                  /\ \A n \in 1..(orth.mu - 1) : f[n] = "left"
                  /\ \A n \in (orth.mu + 1)..N : f[n] = "right"

(* ----------------------------- witnesses ------------------------------- *)
\* C2: a three-axis array whose first unfolding has fewer rows than columns
\* and whose second has not, built and materialized.
C2_Witness ==
    /\ op = "construct"
    /\ dense.shape = <<1, 2, 2>>
    /\ dense.data = <<1, 0, 1, 1>>
    /\ full(t) = dense

C9_Witness ==
    /\ op = "getitem"
    /\ key = <<KIndex(<<-1, 0>>), KIndex(<<0>>)>>
    /\ ndim(t) = 2
    /\ res.kind = "error"
\* round(eps) has run to its end, round_tucker included, on a chain of three
\* modes, and has lowered a rank between cores and the rank of a factor.
C6_Witness ==
    /\ op = "round"
    /\ todo = <<>>
    /\ ndim(t) = 3
    /\ ~IsNone(t.Us[1])
    /\ t.cores[2].shape[3] < entry.cores[2].shape[3]
    /\ \E n \in 1..3 : t.cores[n].shape[2] < entry.cores[n].shape[2]

\* A list of three cores, each of two or three axes and the second of two,
\* has been rejected; so has a list with a core of MaxAxes axes.
C7_Witness ==
    /\ op = "cores"
    /\ res.kind = "error"
    /\ Len(given) = 3
    /\ \A n \in 1..3 : Dim(given[n]) \in {2, 3}
    /\ Dim(given[2]) = 2
    /\ Dim(given[3]) = 3

\* orthogonalize(mu) has returned for the middle mode of three, with a
\* factor on the first mode.
C11_Witness ==
    /\ op = "orthogonalize"
    /\ todo = <<>>
    /\ ndim(t) = 3
    /\ orth.mu = 2
    /\ ~IsNone(t.Us[1])
    /\ orth.flags = <<"left", "none", "right">>

C14_Witness ==
    /\ op = "mul"
    /\ ndim(t) = 2 /\ shape(t) = shape(other)
    /\ \E n \in 1..2 :
          /\ ~IsNone(t.Us[n]) /\ ~IsNone(other.Us[n])
          /\ res.kind = "net" /\ ~IsNone(res.net.Us[n])
    /\ TrailRank(t.cores[1]) >= 2

====
